---- MODULE Spec2Model ----
(***************************************************************************)
(* Model of the Spanish simple-statement nodes of                          *)
(* libcst/_nodes/statement_spanish.py (Aumenta, Continúa, Devuelve, Rompe):*)
(* construction with validation, traversal with child replacement, and     *)
(* code generation into a CodegenState, together with the translating      *)
(* transformer of test.py.                                                 *)
(*                                                                         *)
(* Text is a sequence of atoms: a keyword, an expression's text and        *)
(* "from" are one atom each, whitespace and ";" are one atom per           *)
(* character.  The identifier Continua stands for the class Continúa.      *)
(***************************************************************************)
EXTENDS Integers, Sequences, FiniteSets, TLC

\* ------------------------------------------------------------------ bounds
\* longest explicit whitespace run offered to a constructor
MaxWsLen == 1
\* longest source text (after the keyword) offered to the parser
MaxSrcLen == 4

\* ------------------------------------------------- formatting primitives
DEFAULT == [type |-> "MaybeSentinel"]
None == [type |-> "None"]
NoNode == [kind |-> "NoNode"]

WsChars == {" ", "\t"}

RECURSIVE SeqsUpTo(_, _)
SeqsUpTo(S, n) ==
  IF n = 0 THEN {<<>>}
  ELSE LET shorter == SeqsUpTo(S, n - 1)
       IN  shorter \cup {Append(s, c) : s \in shorter, c \in S}

SimpleWhitespace(v) == [type |-> "SimpleWhitespace", value |-> v]

\* SimpleWhitespace.empty
empty(ws) == Len(ws.value) = 0

\* isinstance(x, MaybeSentinel)
IsSentinel(x) == x.type = "MaybeSentinel"

Semicolon(before, after) ==
  [type |-> "Semicolon", whitespace_after |-> SimpleWhitespace(after),
   whitespace_before |-> SimpleWhitespace(before)]

\* ------------------------------------------------------------ expressions
LEFT == "LEFT"
RIGHT == "RIGHT"

Expr(text, safeLeft, safeRight) ==
  [type |-> "Expr", text |-> text, safe_left |-> safeLeft,
   safe_right |-> safeRight]

\* BaseExpression._safe_to_use_with_word_operator(position)
safe_to_use_with_word_operator(e, position) ==
  IF position = LEFT THEN e.safe_left ELSE e.safe_right

From(before, after, item) ==
  [type |-> "From", item |-> item, whitespace_after_from |-> after,
   whitespace_before_from |-> before]

\* --------------------------------------------------------- input domains
ExprX == Expr("x", FALSE, FALSE)
ExprParen == Expr("(x)", TRUE, TRUE)
ExprNum == Expr("1", TRUE, FALSE)
Exprs == {ExprX, ExprParen, ExprNum}
OptExprs == {None} \cup Exprs

WsValues == {SimpleWhitespace(v) : v \in SeqsUpTo(WsChars, MaxWsLen)}
WsSlots == {DEFAULT} \cup WsValues

BeforeFromSlots == {DEFAULT, SimpleWhitespace(<<>>), SimpleWhitespace(<<" ">>)}
Froms ==
  {From(b, SimpleWhitespace(<<" ">>), ExprX) : b \in BeforeFromSlots}
  \cup {From(b, SimpleWhitespace(<<>>), ExprParen) : b \in BeforeFromSlots}
OptFroms == {None} \cup Froms

Semicolons == {Semicolon(<<>>, <<>>), Semicolon(<<>>, <<" ">>),
               Semicolon(<<" ">>, <<" ">>)}
SemicolonSlots == {DEFAULT} \cup Semicolons

\* ------------------------------------------------------------------ nodes
Aumenta(exc, cause, ws, semicolon) ==
  [kind |-> "Aumenta", exc |-> exc, cause |-> cause,
   semicolon |-> semicolon, whitespace_after_aumenta |-> ws]

Continua(semicolon) == [kind |-> "Continua", semicolon |-> semicolon]

Devuelve(value, ws, semicolon) ==
  [kind |-> "Devuelve", value |-> value, semicolon |-> semicolon,
   whitespace_after_devuelve |-> ws]

Rompe(semicolon) == [kind |-> "Rompe", semicolon |-> semicolon]

NoError == "ok"
ErrNoExc == "Must have an 'exc' when specifying 'clause'. on Aumenta."
ErrAfterAumenta == "Must have at least one space after 'aumenta'."
ErrBeforeFrom == "Must have at least one space before 'from'."
ErrAfterDevuelve == "Must have at least one space after 'devuelve'."

\* Aumenta._validate without the rule that a cause needs an exc
Aumenta_validate_NoDependency(self) ==
  IF /\ self.exc # None
     /\ ~IsSentinel(self.whitespace_after_aumenta)
     /\ empty(self.whitespace_after_aumenta)
     /\ ~safe_to_use_with_word_operator(self.exc, RIGHT)
  THEN ErrAfterAumenta
  ELSE IF /\ self.exc # None
          /\ self.cause # None
          /\ ~IsSentinel(self.cause.whitespace_before_from)
          /\ empty(self.cause.whitespace_before_from)
          /\ ~safe_to_use_with_word_operator(self.exc, LEFT)
       THEN ErrBeforeFrom
  ELSE NoError

\* Aumenta._validate asking for the LEFT position after the keyword
Aumenta_validate_WrongSide(self) ==
  IF self.exc = None /\ self.cause # None THEN ErrNoExc
  ELSE IF /\ self.exc # None
          /\ ~IsSentinel(self.whitespace_after_aumenta)
          /\ empty(self.whitespace_after_aumenta)
          /\ ~safe_to_use_with_word_operator(self.exc, LEFT)
       THEN ErrAfterAumenta
  ELSE IF /\ self.exc # None
          /\ self.cause # None
          /\ ~IsSentinel(self.cause.whitespace_before_from)
          /\ empty(self.cause.whitespace_before_from)
          /\ ~safe_to_use_with_word_operator(self.exc, LEFT)
       THEN ErrBeforeFrom
  ELSE NoError

\* Aumenta._validate without the rule of the space before "from"
Aumenta_validate_NoFromCheck(self) ==
  IF self.exc = None /\ self.cause # None THEN ErrNoExc
  ELSE IF /\ self.exc # None
          /\ ~IsSentinel(self.whitespace_after_aumenta)
          /\ empty(self.whitespace_after_aumenta)
          /\ ~safe_to_use_with_word_operator(self.exc, RIGHT)
       THEN ErrAfterAumenta
  ELSE NoError

\* Aumenta._validate: the message of the CSTValidationError raised, or NoError
Aumenta_validate(self) ==
  IF self.exc = None /\ self.cause # None THEN ErrNoExc
  ELSE IF /\ self.exc # None
          /\ ~IsSentinel(self.whitespace_after_aumenta)
          /\ empty(self.whitespace_after_aumenta)
          /\ ~safe_to_use_with_word_operator(self.exc, RIGHT)
       THEN ErrAfterAumenta
  ELSE IF /\ self.exc # None
          /\ self.cause # None
          /\ ~IsSentinel(self.cause.whitespace_before_from)
          /\ empty(self.cause.whitespace_before_from)
          /\ ~safe_to_use_with_word_operator(self.exc, LEFT)
       THEN ErrBeforeFrom
  ELSE NoError

\* Devuelve._validate that takes the sentinel for a missing gap too
Devuelve_validate_SentinelChecked(self) ==
  IF /\ self.value # None
     /\ \/ IsSentinel(self.whitespace_after_devuelve)
        \/ empty(self.whitespace_after_devuelve)
     /\ ~safe_to_use_with_word_operator(self.value, RIGHT)
  THEN ErrAfterDevuelve
  ELSE NoError

\* Devuelve._validate
Devuelve_validate(self) ==
  IF /\ self.value # None
     /\ ~IsSentinel(self.whitespace_after_devuelve)
     /\ empty(self.whitespace_after_devuelve)
     /\ ~safe_to_use_with_word_operator(self.value, RIGHT)
  THEN ErrAfterDevuelve
  ELSE NoError

\* Continúa and Rompe define no _validate
Continua_validate(self) == NoError
Rompe_validate(self) == NoError

\* ----------------------------------------------------------- CodegenState
NewCodegenState == [position |-> <<>>, tokens |-> <<>>]

\* CodegenState.add_token, the tokens joined as they are appended
add_token(state, atoms) == [state EXCEPT !.tokens = @ \o atoms]

\* CodegenState.record_syntactic_position: the offsets the node's own text
\* (without its semicolon) takes in the accumulator
record_syntactic_position(state, start) ==
  [state EXCEPT !.position = <<start, Len(state.tokens)>>]

SimpleWhitespace_codegen(ws, state) == add_token(state, ws.value)

Expr_codegen(e, state) == add_token(state, <<e.text>>)

\* From._codegen(state, default_space)
From_codegen(from, state, default_space) ==
  LET s1 == IF IsSentinel(from.whitespace_before_from)
            THEN add_token(state, default_space)
            ELSE SimpleWhitespace_codegen(from.whitespace_before_from, state)
      s2 == add_token(s1, <<"from">>)
      s3 == SimpleWhitespace_codegen(from.whitespace_after_from, s2)
  IN  Expr_codegen(from.item, s3)

\* Semicolon._codegen
Semicolon_codegen(semicolon, state) ==
  LET s1 == SimpleWhitespace_codegen(semicolon.whitespace_before, state)
      s2 == add_token(s1, <<";">>)
  IN  SimpleWhitespace_codegen(semicolon.whitespace_after, s2)

\* Aumenta._codegen_impl with the default space emitted without an exc too
Aumenta_codegen_impl_AlwaysSpace(self, state, default_semicolon) ==
  LET exc == self.exc
      cause == self.cause
      s1 == add_token(state, <<"aumenta">>)
      whitespace_after_aumenta == self.whitespace_after_aumenta
      s2 == IF IsSentinel(whitespace_after_aumenta)
            THEN add_token(s1, <<" ">>)
            ELSE SimpleWhitespace_codegen(whitespace_after_aumenta, s1)
      s3 == IF exc # None THEN Expr_codegen(exc, s2) ELSE s2
      s4 == IF cause # None THEN From_codegen(cause, s3, <<" ">>) ELSE s3
      s5 == record_syntactic_position(s4, Len(state.tokens))
  IN  IF IsSentinel(self.semicolon)
      THEN IF default_semicolon THEN add_token(s5, <<";", " ">>) ELSE s5
      ELSE IF self.semicolon.type = "Semicolon"
           THEN Semicolon_codegen(self.semicolon, s5)
           ELSE s5

\* Aumenta._codegen_impl with one space before every exc, whatever the slot
Aumenta_codegen_impl_NormalisesSpace(self, state, default_semicolon) ==
  LET exc == self.exc
      cause == self.cause
      s1 == add_token(state, <<"aumenta">>)
      whitespace_after_aumenta == self.whitespace_after_aumenta
      s2 == IF exc # None
            THEN add_token(s1, <<" ">>)
            ELSE IF IsSentinel(whitespace_after_aumenta) THEN s1
            ELSE SimpleWhitespace_codegen(whitespace_after_aumenta, s1)
      s3 == IF exc # None THEN Expr_codegen(exc, s2) ELSE s2
      s4 == IF cause # None THEN From_codegen(cause, s3, <<" ">>) ELSE s3
      s5 == record_syntactic_position(s4, Len(state.tokens))
  IN  IF IsSentinel(self.semicolon)
      THEN IF default_semicolon THEN add_token(s5, <<";", " ">>) ELSE s5
      ELSE IF self.semicolon.type = "Semicolon"
           THEN Semicolon_codegen(self.semicolon, s5)
           ELSE s5

\* Aumenta._codegen_impl
Aumenta_codegen_impl(self, state, default_semicolon) ==
  LET exc == self.exc
      cause == self.cause
      s1 == add_token(state, <<"aumenta">>)
      whitespace_after_aumenta == self.whitespace_after_aumenta
      s2 == IF IsSentinel(whitespace_after_aumenta)
            THEN IF exc # None THEN add_token(s1, <<" ">>) ELSE s1
            ELSE SimpleWhitespace_codegen(whitespace_after_aumenta, s1)
      s3 == IF exc # None THEN Expr_codegen(exc, s2) ELSE s2
      s4 == IF cause # None THEN From_codegen(cause, s3, <<" ">>) ELSE s3
      s5 == record_syntactic_position(s4, Len(state.tokens))
  IN  IF IsSentinel(self.semicolon)
      THEN IF default_semicolon THEN add_token(s5, <<";", " ">>) ELSE s5
      ELSE IF self.semicolon.type = "Semicolon"
           THEN Semicolon_codegen(self.semicolon, s5)
           ELSE s5

\* Continúa._codegen_impl
Continua_codegen_impl(self, state, default_semicolon) ==
  LET s1 == add_token(state, <<"continúa">>)
      s2 == record_syntactic_position(s1, Len(state.tokens))
  IN  IF IsSentinel(self.semicolon)
      THEN IF default_semicolon THEN add_token(s2, <<";", " ">>) ELSE s2
      ELSE IF self.semicolon.type = "Semicolon"
           THEN Semicolon_codegen(self.semicolon, s2)
           ELSE s2

\* Devuelve._codegen_impl with no default space for the sentinel
Devuelve_codegen_impl_NoDefaultSpace(self, state, default_semicolon) ==
  LET s1 == add_token(state, <<"devuelve">>)
      whitespace_after_devuelve == self.whitespace_after_devuelve
      value == self.value
      s2 == IF IsSentinel(whitespace_after_devuelve)
            THEN s1
            ELSE SimpleWhitespace_codegen(whitespace_after_devuelve, s1)
      s3 == IF value # None THEN Expr_codegen(value, s2) ELSE s2
      s4 == record_syntactic_position(s3, Len(state.tokens))
  IN  IF IsSentinel(self.semicolon)
      THEN IF default_semicolon THEN add_token(s4, <<";", " ">>) ELSE s4
      ELSE IF self.semicolon.type = "Semicolon"
           THEN Semicolon_codegen(self.semicolon, s4)
           ELSE s4

\* Devuelve._codegen_impl
Devuelve_codegen_impl(self, state, default_semicolon) ==
  LET s1 == add_token(state, <<"devuelve">>)
      whitespace_after_devuelve == self.whitespace_after_devuelve
      value == self.value
      s2 == IF IsSentinel(whitespace_after_devuelve)
            THEN IF value # None THEN add_token(s1, <<" ">>) ELSE s1
            ELSE SimpleWhitespace_codegen(whitespace_after_devuelve, s1)
      s3 == IF value # None THEN Expr_codegen(value, s2) ELSE s2
      s4 == record_syntactic_position(s3, Len(state.tokens))
  IN  IF IsSentinel(self.semicolon)
      THEN IF default_semicolon THEN add_token(s4, <<";", " ">>) ELSE s4
      ELSE IF self.semicolon.type = "Semicolon"
           THEN Semicolon_codegen(self.semicolon, s4)
           ELSE s4

\* Rompe._codegen_impl that ignores default_semicolon
Rompe_codegen_impl_AlwaysSemicolon(self, state, default_semicolon) ==
  LET s1 == add_token(state, <<"rompe">>)
      s2 == record_syntactic_position(s1, Len(state.tokens))
  IN  IF IsSentinel(self.semicolon)
      THEN add_token(s2, <<";", " ">>)
      ELSE IF self.semicolon.type = "Semicolon"
           THEN Semicolon_codegen(self.semicolon, s2)
           ELSE s2

\* Rompe._codegen_impl
Rompe_codegen_impl(self, state, default_semicolon) ==
  LET s1 == add_token(state, <<"rompe">>)
      s2 == record_syntactic_position(s1, Len(state.tokens))
  IN  IF IsSentinel(self.semicolon)
      THEN IF default_semicolon THEN add_token(s2, <<";", " ">>) ELSE s2
      ELSE IF self.semicolon.type = "Semicolon"
           THEN Semicolon_codegen(self.semicolon, s2)
           ELSE s2

\* ------------------------------------- the nodes the transformer starts from
Raise(exc, cause, ws, semicolon) ==
  [kind |-> "Raise", exc |-> exc, cause |-> cause,
   semicolon |-> semicolon, whitespace_after_raise |-> ws]

Continue(semicolon) == [kind |-> "Continue", semicolon |-> semicolon]

Return(value, ws, semicolon) ==
  [kind |-> "Return", value |-> value, semicolon |-> semicolon,
   whitespace_after_return |-> ws]

Break(semicolon) == [kind |-> "Break", semicolon |-> semicolon]

OriginalKinds == {"Raise", "Continue", "Return", "Break"}
SpanishKinds == {"Aumenta", "Continua", "Devuelve", "Rompe"}

\* Raise._validate and Return._validate: the rules of the table of
\* validation invariants, one per statement kind
Original_validate(self) ==
  IF self.kind = "Raise"
  THEN IF self.exc = None /\ self.cause # None THEN "no exc"
       ELSE IF /\ self.exc # None
               /\ ~IsSentinel(self.whitespace_after_raise)
               /\ empty(self.whitespace_after_raise)
               /\ ~safe_to_use_with_word_operator(self.exc, RIGHT)
            THEN "no space after raise"
       ELSE IF /\ self.exc # None
               /\ self.cause # None
               /\ ~IsSentinel(self.cause.whitespace_before_from)
               /\ empty(self.cause.whitespace_before_from)
               /\ ~safe_to_use_with_word_operator(self.exc, LEFT)
            THEN "no space before from"
       ELSE NoError
  ELSE IF self.kind = "Return"
  THEN IF /\ self.value # None
          /\ ~IsSentinel(self.whitespace_after_return)
          /\ empty(self.whitespace_after_return)
          /\ ~safe_to_use_with_word_operator(self.value, RIGHT)
       THEN "no space after return"
       ELSE NoError
  ELSE NoError

\* the render algorithm of the statement family, with the English keywords
Original_codegen_impl(self, state, default_semicolon) ==
  LET keyword == CASE self.kind = "Raise" -> "raise"
                   [] self.kind = "Continue" -> "continue"
                   [] self.kind = "Return" -> "return"
                   [] self.kind = "Break" -> "break"
      child == CASE self.kind = "Raise" -> self.exc
                 [] self.kind = "Return" -> self.value
                 [] OTHER -> None
      ws == CASE self.kind = "Raise" -> self.whitespace_after_raise
              [] self.kind = "Return" -> self.whitespace_after_return
              [] OTHER -> DEFAULT
      s1 == add_token(state, <<keyword>>)
      s2 == IF IsSentinel(ws)
            THEN IF child # None THEN add_token(s1, <<" ">>) ELSE s1
            ELSE SimpleWhitespace_codegen(ws, s1)
      s3 == IF child # None THEN Expr_codegen(child, s2) ELSE s2
      s4 == IF self.kind = "Raise" /\ self.cause # None
            THEN From_codegen(self.cause, s3, <<" ">>)
            ELSE s3
      s5 == record_syntactic_position(s4, Len(state.tokens))
  IN  IF IsSentinel(self.semicolon)
      THEN IF default_semicolon THEN add_token(s5, <<";", " ">>) ELSE s5
      ELSE IF self.semicolon.type = "Semicolon"
           THEN Semicolon_codegen(self.semicolon, s5)
           ELSE s5

\* CSTNode._validate dispatched on the node's class
validate(self) ==
  CASE self.kind = "Aumenta" -> Aumenta_validate(self)
    [] self.kind = "Continua" -> Continua_validate(self)
    [] self.kind = "Devuelve" -> Devuelve_validate(self)
    [] self.kind = "Rompe" -> Rompe_validate(self)
    [] OTHER -> Original_validate(self)

\* CSTNode._codegen dispatched on the node's class
codegen(self, state, default_semicolon) ==
  CASE self.kind = "Aumenta" -> Aumenta_codegen_impl(self, state, default_semicolon)
    [] self.kind = "Continua" -> Continua_codegen_impl(self, state, default_semicolon)
    [] self.kind = "Devuelve" -> Devuelve_codegen_impl(self, state, default_semicolon)
    [] self.kind = "Rompe" -> Rompe_codegen_impl(self, state, default_semicolon)
    [] OTHER -> Original_codegen_impl(self, state, default_semicolon)

\* ------------------------------------------------------------ construction
\* CSTNode.__post_init__: validation runs once, when the node is constructed;
\* an error raised there leaves no node
construct(self) ==
  LET e == validate(self)
  IN  [err |-> e, node |-> IF e = NoError THEN self ELSE NoNode]

\* -------------------------------------------------------------- traversal
REMOVE == [type |-> "RemovalSentinel"]

\* visit_sentinel: a sentinel is returned as it is, a value is visited and
\* the visitor's result takes its place
visit_sentinel(current, result) ==
  IF IsSentinel(current) THEN current ELSE result

\* visit_optional: None stays None, a child is visited and may be removed
visit_optional(current, result) ==
  IF current = None THEN None
  ELSE IF result = REMOVE THEN None ELSE result

\* Aumenta._visit_and_replace_children visiting the cause before the exc
Aumenta_visit_fields_Swapped ==
  <<"whitespace_after_aumenta", "cause", "exc", "semicolon">>

\* Aumenta._visit_and_replace_children: the keyword arguments in the order
\* they are evaluated
Aumenta_visit_fields ==
  <<"whitespace_after_aumenta", "exc", "cause", "semicolon">>

\* Continúa._visit_and_replace_children
Continua_visit_fields == <<"semicolon">>

\* Devuelve._visit_and_replace_children
Devuelve_visit_fields == <<"whitespace_after_devuelve", "value", "semicolon">>

\* Rompe._visit_and_replace_children
Rompe_visit_fields == <<"semicolon">>

visit_fields(kind) ==
  CASE kind = "Aumenta" -> Aumenta_visit_fields
    [] kind = "Continua" -> Continua_visit_fields
    [] kind = "Devuelve" -> Devuelve_visit_fields
    [] kind = "Rompe" -> Rompe_visit_fields

\* the helper each field is visited with
visit_field(field, current, result) ==
  IF field \in {"exc", "value", "cause"}
  THEN visit_optional(current, result)
  ELSE visit_sentinel(current, result)

\* what a visitor may return for the child in a field
VisitorResults(field, current) ==
  {current} \cup
  CASE field \in {"exc", "value"} -> {REMOVE, ExprX, ExprParen}
    [] field = "cause" ->
         {REMOVE, From(SimpleWhitespace(<<>>), SimpleWhitespace(<<" ">>), ExprX)}
    [] field = "semicolon" -> {Semicolon(<<>>, <<>>)}
    [] OTHER -> {SimpleWhitespace(<<>>), SimpleWhitespace(<<" ">>)}

\* ------------------------------------------------ the transformer of test.py
\* TranslateToSpanishTransformer.leave_Break
leave_Break(original_node) == Rompe(original_node.semicolon)

\* TranslateToSpanishTransformer.leave_Continue
leave_Continue(original_node) == Continua(original_node.semicolon)

\* TranslateToSpanishTransformer.leave_Raise
leave_Raise(original_node) ==
  Aumenta(original_node.exc, original_node.cause,
          original_node.whitespace_after_raise, original_node.semicolon)

\* leave_Return that leaves the whitespace after the keyword behind
leave_Return_DropsWhitespace(original_node) ==
  Devuelve(original_node.value, DEFAULT, original_node.semicolon)

\* TranslateToSpanishTransformer.leave_Return
leave_Return(original_node) ==
  Devuelve(original_node.value, original_node.whitespace_after_return,
           original_node.semicolon)

leave(original_node) ==
  CASE original_node.kind = "Break" -> leave_Break(original_node)
    [] original_node.kind = "Continue" -> leave_Continue(original_node)
    [] original_node.kind = "Raise" -> leave_Raise(original_node)
    [] original_node.kind = "Return" -> leave_Return(original_node)

\* ------------------------------------------------------------------ state
VARIABLES
  node,               \* the node the last operation produced, or NoNode
  attempt,            \* the fields the last construction was given
  err,                \* the validation error of the last construction
  state,              \* the CodegenState the node was rendered into
  default_semicolon,  \* the default_semicolon of that render
  op,                 \* the last operation
  visiting,           \* the node under traversal, or NoNode
  visited,            \* the fields of it already visited, in order
  updated,            \* the fields the new node will be built from
  original,           \* the node the transformer replaced, or NoNode
  src                 \* the source text last parsed

vars == <<node, attempt, err, state, default_semicolon, op, visiting, visited,
          updated, original, src>>

Init ==
  /\ node = NoNode
  /\ attempt = NoNode
  /\ err = NoError
  /\ state = NewCodegenState
  /\ default_semicolon = FALSE
  /\ op = "init"
  /\ visiting = NoNode
  /\ visited = <<>>
  /\ updated = NoNode
  /\ original = NoNode
  /\ src = <<>>

\* a constructor call: the node exists only if validation passes
Construct(self) ==
  /\ visiting = NoNode
  /\ attempt' = self
  /\ node' = construct(self).node
  /\ err' = construct(self).err
  /\ state' = NewCodegenState
  /\ default_semicolon' = FALSE
  /\ op' = "construct"
  /\ visited' = <<>>
  /\ updated' = NoNode
  /\ original' = NoNode
  /\ src' = <<>>
  /\ UNCHANGED visiting

ConstructAumenta ==
  \E exc \in OptExprs, cause \in OptFroms, ws \in WsSlots,
     semicolon \in SemicolonSlots :
    Construct(Aumenta(exc, cause, ws, semicolon))

ConstructContinua ==
  \E semicolon \in SemicolonSlots : Construct(Continua(semicolon))

ConstructDevuelve ==
  \E value \in OptExprs, ws \in WsSlots, semicolon \in SemicolonSlots :
    Construct(Devuelve(value, ws, semicolon))

ConstructRompe ==
  \E semicolon \in SemicolonSlots : Construct(Rompe(semicolon))

\* the statements a parsed module holds before the transformer runs
ConstructOriginal ==
  \/ \E exc \in OptExprs, cause \in OptFroms, ws \in WsSlots,
        semicolon \in SemicolonSlots :
       Construct(Raise(exc, cause, ws, semicolon))
  \/ \E value \in OptExprs, ws \in WsSlots, semicolon \in SemicolonSlots :
       Construct(Return(value, ws, semicolon))
  \/ \E semicolon \in SemicolonSlots :
       Construct(Break(semicolon)) \/ Construct(Continue(semicolon))

\* node._codegen(state, default_semicolon) on a new CodegenState
Codegen ==
  /\ visiting = NoNode
  /\ node # NoNode
  /\ \E ds \in BOOLEAN :
       /\ default_semicolon' = ds
       /\ state' = codegen(node, NewCodegenState, ds)
  /\ op' = "codegen"
  /\ UNCHANGED <<node, attempt, err, visiting, visited, updated, original, src>>

\* _visit_and_replace_children is entered
BeginVisit ==
  /\ visiting = NoNode
  /\ node # NoNode
  /\ node.kind \in SpanishKinds
  /\ visiting' = node
  /\ visited' = <<>>
  /\ updated' = node
  /\ op' = "visit"
  /\ UNCHANGED <<node, attempt, err, state, default_semicolon, original, src>>

\* the next keyword argument is evaluated: the visitor sees that child
VisitChild ==
  /\ visiting # NoNode
  /\ Len(visited) < Len(visit_fields(visiting.kind))
  /\ LET field == visit_fields(visiting.kind)[Len(visited) + 1]
     IN  /\ \E result \in VisitorResults(field, visiting[field]) :
              updated' = [updated EXCEPT
                            ![field] = visit_field(field, visiting[field], result)]
         /\ visited' = Append(visited, field)
  /\ op' = "visit"
  /\ UNCHANGED <<node, attempt, err, state, default_semicolon, visiting,
                 original, src>>

\* the new node is constructed from the visited fields
Reconstruct ==
  /\ visiting # NoNode
  /\ Len(visited) = Len(visit_fields(visiting.kind))
  /\ attempt' = updated
  /\ node' = construct(updated).node
  /\ err' = construct(updated).err
  /\ state' = NewCodegenState
  /\ default_semicolon' = FALSE
  /\ op' = "reconstruct"
  /\ visiting' = NoNode
  /\ updated' = NoNode
  /\ original' = NoNode
  /\ src' = <<>>
  /\ UNCHANGED visited

\* the transformer's leave_ method replaces the node
Translate ==
  /\ visiting = NoNode
  /\ node # NoNode
  /\ node.kind \in OriginalKinds
  /\ attempt' = leave(node)
  /\ node' = construct(leave(node)).node
  /\ err' = construct(leave(node)).err
  /\ original' = node
  /\ state' = NewCodegenState
  /\ default_semicolon' = FALSE
  /\ op' = "translate"
  /\ src' = <<>>
  /\ UNCHANGED <<visiting, visited, updated>>

Next ==
  \/ ConstructAumenta
  \/ ConstructContinua
  \/ ConstructDevuelve
  \/ ConstructRompe
  \/ ConstructOriginal
  \/ Codegen
  \/ BeginVisit
  \/ VisitChild
  \/ Reconstruct
  \/ Translate

Spec == Init /\ [][Next]_vars

\* ----------------------------------------------------------------- parser
Keywords == {"aumenta", "continúa", "devuelve", "rompe",
             "raise", "continue", "return", "break"}
KeywordKind(k) ==
  CASE k = "aumenta" -> "Aumenta"
    [] k = "continúa" -> "Continua"
    [] k = "devuelve" -> "Devuelve"
    [] k = "rompe" -> "Rompe"
    [] k = "raise" -> "Raise"
    [] k = "continue" -> "Continue"
    [] k = "return" -> "Return"
    [] k = "break" -> "Break"

ExprAtoms == {e.text : e \in Exprs}
ExprOf(atom) == CHOOSE e \in Exprs : e.text = atom

SrcAtoms == {" ", "x", "(x)", "from", ";"}
Sources == {<<k>> \o t : k \in Keywords, t \in SeqsUpTo(SrcAtoms, MaxSrcLen)}

\* the first position at or after i that holds no whitespace
RECURSIVE SkipWs(_, _)
SkipWs(s, i) ==
  IF i <= Len(s) /\ s[i] \in WsChars THEN SkipWs(s, i + 1) ELSE i

Slice(s, from, to) == SubSeq(s, from, to)

ParseFailure == [ok |-> FALSE]

\* the optional terminator from position r to the end of the text
parse_semicolon(s, r) ==
  IF r = Len(s) + 1 THEN [semicolon |-> DEFAULT, ok |-> TRUE]
  ELSE LET p == SkipWs(s, r)
       IN  IF p <= Len(s) /\ s[p] = ";" /\ SkipWs(s, p + 1) = Len(s) + 1
           THEN [semicolon |-> Semicolon(Slice(s, r, p - 1),
                                         Slice(s, p + 1, Len(s))),
                 ok |-> TRUE]
           ELSE ParseFailure

\* the optional from-clause after an expression that ends before position k
parse_from(s, k, exc) ==
  LET m == SkipWs(s, k)
  IN  IF m <= Len(s) /\ s[m] = "from"
      THEN LET n == SkipWs(s, m + 1)
           IN  IF /\ m > k \/ exc.safe_left
                  /\ n <= Len(s)
                  /\ s[n] \in ExprAtoms
                  /\ n > m + 1 \/ ExprOf(s[n]).safe_right
               THEN [cause |-> From(SimpleWhitespace(Slice(s, k, m - 1)),
                                    SimpleWhitespace(Slice(s, m + 1, n - 1)),
                                    ExprOf(s[n])),
                     ok |-> TRUE, rest |-> n + 1]
               ELSE ParseFailure
      ELSE [cause |-> None, ok |-> TRUE, rest |-> k]

\* parse_statement for one simple statement: every slot of the node holds
\* the text found in the source
parse_statement(s) ==
  LET kind == KeywordKind(s[1])
      j == SkipWs(s, 2)
      hasExpr == /\ kind \in {"Aumenta", "Raise", "Devuelve", "Return"}
                 /\ j <= Len(s)
                 /\ s[j] \in ExprAtoms
      exc == IF hasExpr THEN ExprOf(s[j]) ELSE None
      ws == SimpleWhitespace(IF hasExpr THEN Slice(s, 2, j - 1) ELSE <<>>)
      from == IF hasExpr /\ kind \in {"Aumenta", "Raise"}
              THEN parse_from(s, j + 1, exc)
              ELSE [cause |-> None, ok |-> TRUE,
                    rest |-> IF hasExpr THEN j + 1 ELSE 2]
      semi == parse_semicolon(s, from.rest)
  IN  IF hasExpr /\ j = 2 /\ ~exc.safe_right THEN ParseFailure
      ELSE IF ~from.ok THEN ParseFailure
      ELSE IF ~semi.ok THEN ParseFailure
      ELSE [node |->
              CASE kind = "Aumenta" -> Aumenta(exc, from.cause, ws, semi.semicolon)
                [] kind = "Raise" -> Raise(exc, from.cause, ws, semi.semicolon)
                [] kind = "Devuelve" -> Devuelve(exc, ws, semi.semicolon)
                [] kind = "Return" -> Return(exc, ws, semi.semicolon)
                [] kind = "Continua" -> Continua(semi.semicolon)
                [] kind = "Continue" -> Continue(semi.semicolon)
                [] kind = "Rompe" -> Rompe(semi.semicolon)
                [] kind = "Break" -> Break(semi.semicolon),
            ok |-> TRUE]

ErrParse == "ParserSyntaxError"

\* the entry point: the parser reads the source text of one statement and
\* constructs its node
ParseStatement ==
  /\ op = "init"
  /\ \E s \in Sources :
       LET parsed == parse_statement(s)
       IN  /\ src' = s
           /\ attempt' = IF parsed.ok THEN parsed.node ELSE NoNode
           /\ node' = IF parsed.ok THEN construct(parsed.node).node ELSE NoNode
           /\ err' = IF parsed.ok THEN construct(parsed.node).err ELSE ErrParse
  /\ state' = NewCodegenState
  /\ default_semicolon' = FALSE
  /\ op' = "parse"
  /\ visited' = <<>>
  /\ updated' = NoNode
  /\ original' = NoNode
  /\ UNCHANGED visiting

NextParse ==
  \/ ParseStatement
  \/ Codegen

SpecParse == Init /\ [][NextParse]_vars

\* ======================================================= properties checked
IsRaiseLike(n) == n.kind = "Aumenta"
IsReturnLike(n) == n.kind = "Devuelve"
HasKeywordSlot(n) == IsRaiseLike(n) \/ IsReturnLike(n)

\* the expression after the keyword, and the whitespace slot before it
ChildOf(n) == IF IsRaiseLike(n) THEN n.exc ELSE n.value
SlotOf(n) ==
  IF IsRaiseLike(n) THEN n.whitespace_after_aumenta
  ELSE n.whitespace_after_devuelve
WithSlot(n, ws) ==
  IF IsRaiseLike(n) THEN [n EXCEPT !.whitespace_after_aumenta = ws]
  ELSE [n EXCEPT !.whitespace_after_devuelve = ws]
KeywordOf(n) ==
  CASE n.kind = "Aumenta" -> "aumenta"
    [] n.kind = "Continua" -> "continúa"
    [] n.kind = "Devuelve" -> "devuelve"
    [] n.kind = "Rompe" -> "rompe"

ExplicitEmpty(slot) == slot.type = "SimpleWhitespace" /\ slot.value = <<>>
ExplicitNonEmpty(slot) == slot.type = "SimpleWhitespace" /\ slot.value # <<>>

Rendered == op = "codegen" /\ node.kind \in SpanishKinds
Tokens == state.tokens

\* C1: an Aumenta given a cause and no exc is never constructed, directly or
\* by the reconstruction of a traversal: the attempt ends with no node and
\* the error of the missing exc, whatever the other slots hold
C1_CauseWithoutExcFails ==
  (/\ attempt.kind = "Aumenta"
   /\ attempt.exc = None
   /\ attempt.cause # None)
  => (node = NoNode /\ err = ErrNoExc)

C1_Witness ==
  /\ op = "reconstruct"
  /\ attempt.kind = "Aumenta"
  /\ attempt.exc = None
  /\ attempt.cause # None
  /\ ~IsSentinel(attempt.whitespace_after_aumenta)
  /\ node = NoNode
  /\ err = ErrNoExc

\* C2: an Aumenta without cause or a Devuelve, given explicit whitespace
\* after the keyword and an expression not safe on the RIGHT of a word, fails
\* to construct when that whitespace is empty and is constructed when it is
\* not empty
C2_KeywordAdjacency ==
  (/\ attempt.kind \in {"Aumenta", "Devuelve"}
   /\ attempt.kind = "Aumenta" => attempt.cause = None
   /\ ChildOf(attempt) # None
   /\ ~ChildOf(attempt).safe_right)
  => /\ ExplicitEmpty(SlotOf(attempt)) =>
          /\ node = NoNode
          /\ err = IF attempt.kind = "Aumenta" THEN ErrAfterAumenta
                   ELSE ErrAfterDevuelve
     /\ ExplicitNonEmpty(SlotOf(attempt)) => (node = attempt /\ err = NoError)

C2_Witness ==
  /\ op = "construct"
  /\ attempt.kind = "Aumenta"
  /\ attempt.cause = None
  /\ attempt.exc = ExprNum
  /\ ExplicitEmpty(attempt.whitespace_after_aumenta)
  /\ node = NoNode
  /\ err = ErrAfterAumenta

\* the render of the node that differs from the rendered one only in holding
\* the default sentinel after the keyword
SentinelRender ==
  codegen(WithSlot(node, DEFAULT), NewCodegenState, default_semicolon).tokens

\* C3 as stated: an Aumenta or Devuelve with explicit empty whitespace after
\* the keyword renders to the same text as the same node with the default
\* sentinel, with or without an expression
C3_EmptyRendersAsSentinel ==
  (Rendered /\ HasKeywordSlot(node) /\ ExplicitEmpty(SlotOf(node)))
  => Tokens = SentinelRender

\* C3 amended: explicit empty whitespace and the default sentinel render to
\* the same text only when no expression follows the keyword; when one
\* follows, the sentinel's render has one space after the keyword that the
\* explicit empty whitespace's render lacks
C3_EmptyVersusSentinel ==
  (Rendered /\ HasKeywordSlot(node) /\ ExplicitEmpty(SlotOf(node)))
  => IF ChildOf(node) = None
     THEN Tokens = SentinelRender
     ELSE SentinelRender =
            <<Tokens[1], " ">> \o SubSeq(Tokens, 2, Len(Tokens))

C3_Witness ==
  /\ Rendered
  /\ node.kind = "Devuelve"
  /\ ExplicitEmpty(node.whitespace_after_devuelve)
  /\ node.value = ExprParen
  /\ Tokens[2] = "(x)"

\* C4: the default sentinel after the keyword never raises the adjacency
\* error, and every rendered Aumenta or Devuelve whose expression is not
\* safe on the RIGHT of a word has whitespace between keyword and expression
C4_SafeSeparator ==
  /\ (attempt.kind \in {"Aumenta", "Devuelve"} /\ IsSentinel(SlotOf(attempt)))
     => err \notin {ErrAfterAumenta, ErrAfterDevuelve}
  /\ (/\ Rendered
      /\ HasKeywordSlot(node)
      /\ ChildOf(node) # None
      /\ ~ChildOf(node).safe_right)
     => (Tokens[1] = KeywordOf(node) /\ Tokens[2] \in WsChars)

C4_Witness ==
  /\ Rendered
  /\ node.kind = "Aumenta"
  /\ IsSentinel(node.whitespace_after_aumenta)
  /\ node.exc = ExprX
  /\ Tokens[2] = " "
  /\ Tokens[3] = "x"

\* C5: rendering an Aumenta or Devuelve, a sentinel after the keyword gives
\* exactly one space before a present expression and nothing when there is
\* no expression; explicit whitespace is emitted as it is in both cases
C5_DefaultFill ==
  (Rendered /\ HasKeywordSlot(node))
  => LET child == ChildOf(node)
         slot == SlotOf(node)
         gap == IF IsSentinel(slot)
                THEN IF child # None THEN <<" ">> ELSE <<>>
                ELSE slot.value
     IN  /\ Tokens[1] = KeywordOf(node)
         /\ SubSeq(Tokens, 2, 1 + Len(gap)) = gap
         /\ IF child # None
            THEN Tokens[2 + Len(gap)] = child.text
            ELSE state.position = <<0, 1 + Len(gap)>>

C5_Witness ==
  /\ Rendered
  /\ node.kind = "Devuelve"
  /\ IsSentinel(node.whitespace_after_devuelve)
  /\ node.value = ExprX
  /\ SubSeq(Tokens, 1, 3) = <<"devuelve", " ", "x">>

\* what a render emitted after the node's own text
Terminator == SubSeq(Tokens, state.position[2] + 1, Len(Tokens))

\* C6: for the four statement kinds, a sentinel terminator renders as "; "
\* when default_semicolon is true and as nothing when it is false; an
\* explicit Semicolon renders as it is, and the whole output is the same for
\* both values of default_semicolon
C6_Terminator ==
  Rendered
  => IF IsSentinel(node.semicolon)
     THEN Terminator = IF default_semicolon THEN <<";", " ">> ELSE <<>>
     ELSE /\ Terminator = node.semicolon.whitespace_before.value
                            \o <<";">>
                            \o node.semicolon.whitespace_after.value
          /\ Tokens = codegen(node, NewCodegenState, ~default_semicolon).tokens

C6_Witness ==
  /\ Rendered
  /\ node.kind = "Rompe"
  /\ IsSentinel(node.semicolon)
  /\ default_semicolon
  /\ Tokens = <<"rompe", ";", " ">>

\* the combinations of fields the rules of construction exclude
NoGap(slot) == ExplicitEmpty(slot)
Inconsistent(n) ==
  \/ /\ n.kind = "Aumenta"
     /\ \/ n.exc = None /\ n.cause # None
        \/ n.exc # None /\ NoGap(n.whitespace_after_aumenta) /\ ~n.exc.safe_right
        \/ /\ n.exc # None
           /\ n.cause # None
           /\ NoGap(n.cause.whitespace_before_from)
           /\ ~n.exc.safe_left
  \/ /\ n.kind = "Devuelve"
     /\ n.value # None
     /\ NoGap(n.whitespace_after_devuelve)
     /\ ~n.value.safe_right

\* C7: a traversal ends by constructing a new node from the visited fields
\* under full validation: when the visitor's results form an inconsistent
\* combination the traversal fails with a validation error and returns no
\* node, otherwise it returns the node built from those fields
C7_TraversalRevalidates ==
  op = "reconstruct"
  => IF Inconsistent(attempt)
     THEN node = NoNode /\ err # NoError
     ELSE node = attempt /\ err = NoError

C7_Witness ==
  /\ op = "reconstruct"
  /\ attempt.kind = "Aumenta"
  /\ attempt.exc = ExprX
  /\ attempt.cause # None
  /\ NoGap(attempt.cause.whitespace_before_from)
  /\ ~NoGap(attempt.whitespace_after_aumenta)
  /\ node = NoNode
  /\ err = ErrBeforeFrom

IsPrefix(p, q) == Len(p) <= Len(q) /\ SubSeq(q, 1, Len(p)) = p

\* C8: during a traversal the fields are visited in source order, each at
\* most once: whitespace after the keyword, exc, cause, semicolon for
\* Aumenta; whitespace after the keyword, value, semicolon for Devuelve; and
\* the node is rebuilt only when all of them were visited
C8_VisitOrder ==
  LET order(kind) ==
        CASE kind = "Aumenta" ->
               <<"whitespace_after_aumenta", "exc", "cause", "semicolon">>
          [] kind = "Devuelve" ->
               <<"whitespace_after_devuelve", "value", "semicolon">>
          [] OTHER -> <<"semicolon">>
  IN  /\ visiting # NoNode => IsPrefix(visited, order(visiting.kind))
      /\ op = "reconstruct" => visited = order(attempt.kind)

C8_Witness ==
  /\ visiting # NoNode
  /\ visiting.kind = "Aumenta"
  /\ visiting.exc # None
  /\ visiting.cause # None
  /\ visited = <<"whitespace_after_aumenta", "exc", "cause">>

SpanishKeyword(atom) ==
  CASE atom = "break" -> "rompe"
    [] atom = "continue" -> "continúa"
    [] atom = "raise" -> "aumenta"
    [] atom = "return" -> "devuelve"
    [] OTHER -> atom
ReplaceKeywords(text) == [i \in DOMAIN text |-> SpanishKeyword(text[i])]

\* C9: the node the transformer puts in place of a Break, Continue, Raise or
\* Return always constructs, and renders to the text of the node it replaced
\* with only the keyword changed, for both values of default_semicolon; a
\* Continúa likewise renders as the Rompe with its terminator, up to keyword
C9_KeywordOnlyReplacement ==
  /\ op = "translate" => (node # NoNode /\ err = NoError)
  /\ (op = "codegen" /\ original # NoNode)
     => Tokens = ReplaceKeywords(
                   Original_codegen_impl(original, NewCodegenState,
                                         default_semicolon).tokens)
  /\ (Rendered /\ node.kind = "Continua")
     => [i \in DOMAIN Tokens |->
           IF Tokens[i] = "continúa" THEN "rompe" ELSE Tokens[i]]
        = codegen(Rompe(node.semicolon), NewCodegenState,
                  default_semicolon).tokens

C9_Witness ==
  /\ op = "codegen"
  /\ original # NoNode
  /\ original.kind = "Return"
  /\ original.value = ExprX
  /\ ExplicitNonEmpty(original.whitespace_after_return)
  /\ node.kind = "Devuelve"
  /\ Tokens[1] = "devuelve"

\* C10: a statement parsed from source text and rendered unmodified, the way
\* its line renders it (default_semicolon only where the source has a
\* semicolon), gives back the source text; the parser's node always
\* constructs
C10_RoundTrip ==
  /\ (op = "parse" /\ attempt # NoNode) => (node = attempt /\ err = NoError)
  /\ (/\ op = "codegen"
      /\ src # <<>>
      /\ default_semicolon => ~IsSentinel(node.semicolon))
     => Tokens = src

C10_Witness ==
  /\ op = "codegen"
  /\ src = <<"aumenta", "(x)", "from", "(x)", ";">>
  /\ node.kind = "Aumenta"
  /\ node.cause # None
  /\ Tokens = src

====
